---- MODULE Spec2Model ----
(***************************************************************************)
(* A model of CyberXNoteloom (src/noteloom): the voice threads of          *)
(* HybridSynthesizer.render mixing into the shared master buffer, the      *)
(* ADSR envelope generator, the stages of UniversalConverter.convert and   *)
(* the sample arithmetic of the processing blocks.                         *)
(*                                                                         *)
(* Units.  Time is counted in ticks of 10 ms (TicksPerSec per second; the  *)
(* code counts microseconds).  Sample values are fixed-point integers:     *)
(* floating-point rounding is not modelled, products and quotients are     *)
(* exact up to the truncation written in the operators.                    *)
(***************************************************************************)
EXTENDS Integers, Sequences, FiniteSets, TLC

VARIABLES
    \* ---- HybridSynthesizer.render ----
    midi_events,   \* the event list handed to render
    audio,         \* the master buffer: row -> channel -> sample
    lock,          \* 0 when free, else the index of the voice holding it
    thr,           \* event index -> the voice thread started for it
    voices,        \* the threads render has started, in start order
    mainPc,        \* render's position: "loop", "join", "returned"
    idx,           \* render's position in midi_events
    result,        \* the buffer render returned
    \* ---- apply_adsr_envelope ----
    envArgs,       \* the arguments of the call
    envPc,         \* "call", "returned", "raised"
    envelope,      \* the envelope returned: a sequence of fractions <<n, d>>
    envErr,        \* the exception raised, "" when none
    \* ---- UniversalConverter ----
    ctorArgs,      \* the arguments of UniversalConverter(...)
    cvPc,          \* "new", the stage convert runs next, "returned", "raised"
    cvErr,         \* the exception that ended construction or convert, "" when none
    duration,      \* self.duration, in ticks
    shape,         \* <<rows, columns>> of the buffer convert holds, <<>> before synthesis
    stageLog,      \* the stages that have run, in order
    formats,       \* output_formats, the argument of convert
    tasks,         \* position of each encode task: "queued", "running", "done"
    results,       \* the map convert builds: key -> entry
    temp_wavs,     \* the encode tasks whose temporary WAV file exists
    \* ---- the sample arithmetic of _process_audio ----
    dspCfg,        \* the parameters of the blocks
    pcm,           \* the buffer: a sequence of rows, each a sequence of channel samples
    dspIn,         \* the buffer the last block was given
    dspPc,         \* the block that runs next, "done" after the last
    divided,       \* TRUE once Normalizer.process has divided the buffer
    nan,           \* TRUE once a division by zero has put NaN in the buffer
    \* ---- NoteParser.parse, MidiParser.parse, MidiSanitizer ----
    parseArgs,     \* the parser or sanitizer called and its input
    parsePc,       \* "call", "returned", "raised"
    parsed         \* the event list returned

renderVars == <<midi_events, audio, lock, thr, voices, mainPc, idx, result>>
envVars == <<envArgs, envPc, envelope, envErr>>
cvVars == <<ctorArgs, cvPc, cvErr, duration, shape, stageLog, formats, tasks,
           results, temp_wavs>>

dspVars == <<dspCfg, pcm, dspIn, dspPc, divided, nan>>

parseVars == <<parseArgs, parsePc, parsed>>

vars == <<renderVars, envVars, cvVars, dspVars, parseVars>>

(***************************************************************************)
(* Helpers                                                                 *)
(***************************************************************************)
TicksPerSec == 100

Max(a, b) == IF a >= b THEN a ELSE b
Min(a, b) == IF a <= b THEN a ELSE b

\* Python's int() of the quotient n/d (d > 0): truncation toward zero.
IntTrunc(n, d) == IF n >= 0 THEN n \div d ELSE -((-n) \div d)

(***************************************************************************)
(* HybridSynthesizer.render  (synthesizer.py)                              *)
(***************************************************************************)
MaxEvents == 2          \* length of the event lists explored
RenderRate == 10        \* sample_rate of the synthesizer explored (Hz)
RenderDuration == 30    \* its duration, in ticks
NumChannels == 2        \* its channels

default_duration_sec == 50     \* 0.5 s, the fallback note duration
min_duration_sec == 10         \* 0.1 s, the floor of a matched duration

Times == {0, 10, 50}
Notes == {60, 61}
\* velocity is <<v>>, or <<>> for an event whose velocity is not a number
Velocities == {<<100>>, <<>>}

NoteOns == [type : {"note_on"}, note : Notes, velocity : Velocities,
            time : Times, channel : {0}]
NoteOffs == [type : {"note_off"}, note : Notes, velocity : {<<0>>},
             time : Times, channel : {0}]
Events == NoteOns \cup NoteOffs

EventLists == UNION {[1..n -> Events] : n \in 0..MaxEvents}

num_samples == IntTrunc(RenderRate * RenderDuration, TicksPerSec)

Rows == 1..num_samples
Chans == 1..NumChannels

ZeroBuffer == [r \in Rows |-> [c \in Chans |-> 0]]

\* A matching that does not compare channels.
MatchingOff_IgnoringChannel(evs, i) ==
    LET later == {j \in (i+1)..Len(evs) :
                     /\ evs[j].type = "note_off"
                     /\ evs[j].note = evs[i].note}
    IN IF later = {} THEN 0
       ELSE CHOOSE j \in later : \A k \in later : j <= k

\* A one-to-one matching: a note_off taken by an earlier note_on is not
\* offered to a later one.
RECURSIVE MatchingOff_Consuming(_, _)
MatchingOff_Consuming(evs, i) ==
    LET used == {MatchingOff_Consuming(evs, k) :
                    k \in {n \in 1..(i-1) : evs[n].type = "note_on"}}
        later == {j \in (i+1)..Len(evs) :
                     /\ evs[j].type = "note_off"
                     /\ evs[j].note = evs[i].note
                     /\ evs[j].channel = evs[i].channel
                     /\ j \notin used}
    IN IF later = {} THEN 0
       ELSE CHOOSE j \in later : \A k \in later : j <= k

\* The NoteOff that gives event i its duration: the first later note_off
\* with the same note and channel; 0 when there is none.
MatchingOff(evs, i) ==
    LET later == {j \in (i+1)..Len(evs) :
                     /\ evs[j].type = "note_off"
                     /\ evs[j].note = evs[i].note
                     /\ evs[j].channel = evs[i].channel}
    IN IF later = {} THEN 0
       ELSE CHOOSE j \in later : \A k \in later : j <= k

duration_sec(evs, i) ==
    LET j == MatchingOff(evs, i)
    IN IF j = 0 THEN default_duration_sec
       ELSE Max(min_duration_sec, evs[j].time - evs[i].time)

start_sample(ev) == IntTrunc(ev.time * RenderRate, TicksPerSec)

\* The oscillator, as a table of nonzero fixed-point values: sin(2 pi f t)
\* times the envelope is not computed.
Tone(note, i) == ((note + i) % 3) + 1

\* synthesize_note raises (and synthesize catches it) when the velocity is
\* not a number.
SynthesizeNoteRaises(ev) == Len(ev.velocity) = 0

\* synthesize_note: int(duration * sample_rate) samples of tone * velocity.
note_wave(ev, dur) ==
    [i \in 1..IntTrunc(dur * RenderRate, TicksPerSec) |->
        Tone(ev.note, i) * ev.velocity[1]]

end_sample(ev, dur) == Min(start_sample(ev) + Len(note_wave(ev, dur)), num_samples)

\* audio[start_sample:end_sample, :]: the rows of the slice (1-based).
SliceRows(ev, dur) ==
    {r \in Rows : start_sample(ev) < r /\ r <= end_sample(ev, dur)}

\* note_wave[:end_sample - start_sample]: its number of rows (a negative
\* bound counts from the end of the wave).
TileRows(ev, dur) ==
    LET k == end_sample(ev, dur) - start_sample(ev)
        n == Len(note_wave(ev, dur))
    IN IF k >= 0 THEN Min(k, n) ELSE Max(n + k, 0)

\* The in-place add raises ValueError, before it writes anything, when the
\* tile cannot be broadcast to the slice.
MixRaises(ev, dur) ==
    /\ TileRows(ev, dur) # Cardinality(SliceRows(ev, dur))
    /\ TileRows(ev, dur) # 1

\* What the voice adds at row r of every channel.
Contribution(ev, dur, r) ==
    IF r \in SliceRows(ev, dur)
    THEN IF TileRows(ev, dur) = Cardinality(SliceRows(ev, dur))
         THEN note_wave(ev, dur)[r - start_sample(ev)]
         ELSE note_wave(ev, dur)[1]
    ELSE 0

\* A tile that carries the waveform in the first channel only.
Tile_FirstChannelOnly(ev, dur, r, c) ==
    IF c = 1 THEN Contribution(ev, dur, r) ELSE 0

\* np.tile(note_wave[:, np.newaxis], (1, self.channels)): column c of the
\* tile is the mono waveform itself, for every channel.
Tile(ev, dur, r, c) == Contribution(ev, dur, r)

NoThread == [pc |-> "none", dur |-> 0, tmp |-> <<>>]

RenderInit ==
    /\ midi_events \in EventLists
    /\ audio = ZeroBuffer
    /\ lock = 0
    /\ thr = [i \in 1..MaxEvents |-> NoThread]
    /\ voices = <<>>
    /\ mainPc = "loop"
    /\ idx = 1
    /\ result = <<>>

\* render, lines 96-109: one pass of the loop over midi_events.
LoopStep ==
    /\ mainPc = "loop"
    /\ idx <= Len(midi_events)
    /\ IF midi_events[idx].type = "note_on"
       THEN /\ thr' = [thr EXCEPT ![idx] =
                          [pc |-> "synth",
                           dur |-> duration_sec(midi_events, idx),
                           tmp |-> <<>>]]
            /\ voices' = Append(voices, idx)
       ELSE UNCHANGED <<thr, voices>>
    /\ idx' = idx + 1
    /\ UNCHANGED <<midi_events, audio, lock, mainPc, result>>
    /\ UNCHANGED <<envVars, cvVars, dspVars, parseVars>>

LoopEnd ==
    /\ mainPc = "loop"
    /\ idx > Len(midi_events)
    /\ mainPc' = "join"
    /\ idx' = 1
    /\ UNCHANGED <<midi_events, audio, lock, thr, voices, result>>
    /\ UNCHANGED <<envVars, cvVars, dspVars, parseVars>>

Finished_NoWait(v) == TRUE

\* The thread of voice v has ended: t.join() returns.
Finished(v) == thr[v].pc \in {"mixed", "skipped", "died"}

\* render, lines 110-111: t.join() for each started thread in turn.
JoinStep ==
    /\ mainPc = "join"
    /\ idx <= Len(voices)
    /\ Finished(voices[idx])
    /\ idx' = idx + 1
    /\ UNCHANGED <<midi_events, audio, lock, thr, voices, mainPc, result>>
    /\ UNCHANGED <<envVars, cvVars, dspVars, parseVars>>

\* render, line 113.
Return ==
    /\ mainPc = "join"
    /\ idx > Len(voices)
    /\ mainPc' = "returned"
    /\ result' = audio
    /\ UNCHANGED <<midi_events, audio, lock, thr, voices, idx>>
    /\ UNCHANGED <<envVars, cvVars, dspVars, parseVars>>

\* synthesize, lines 79-89: the waveform is computed, or synthesize_note
\* raises and the voice returns.
SynthesizeNote(v) ==
    /\ thr[v].pc = "synth"
    /\ thr' = [thr EXCEPT ![v].pc =
                  IF SynthesizeNoteRaises(midi_events[v]) THEN "skipped"
                  ELSE "acquire"]
    /\ UNCHANGED <<midi_events, audio, lock, voices, mainPc, idx, result>>
    /\ UNCHANGED <<envVars, cvVars, dspVars, parseVars>>

NoMutualExclusion(v) == TRUE

LockFree(v) == lock = 0

\* synthesize, line 91: with lock.
Acquire(v) ==
    /\ thr[v].pc = "acquire"
    /\ LockFree(v)
    /\ lock' = v
    /\ thr' = [thr EXCEPT ![v].pc = "read"]
    /\ UNCHANGED <<midi_events, audio, voices, mainPc, idx, result>>
    /\ UNCHANGED <<envVars, cvVars, dspVars, parseVars>>

StillHeld(v) == lock

\* A lock released by hand after the addition only: an exception in the
\* mixing step leaves it held.
ReleasedBy_OnlyOnSuccess(v) ==
    IF lock = v /\ thr[v].pc = "write" THEN 0 ELSE lock

\* Leaving the with block, normally or by an exception, releases the lock.
ReleasedBy(v) == IF lock = v THEN 0 ELSE lock

\* synthesize, line 93, first half: the shapes are checked and the slice
\* is read; a shape mismatch raises out of the with block, which releases
\* the lock, and ends the thread.
MixRead(v) ==
    /\ thr[v].pc = "read"
    /\ IF MixRaises(midi_events[v], thr[v].dur)
       THEN /\ thr' = [thr EXCEPT ![v].pc = "died"]
            /\ lock' = ReleasedBy(v)
       ELSE /\ thr' = [thr EXCEPT ![v].pc = "write",
                                  ![v].tmp = [r \in Rows |-> audio[r]]]
            /\ UNCHANGED lock
    /\ UNCHANGED <<midi_events, audio, voices, mainPc, idx, result>>
    /\ UNCHANGED <<envVars, cvVars, dspVars, parseVars>>

\* synthesize, line 93, second half: the sums are stored and the lock is
\* released.
MixWrite(v) ==
    /\ thr[v].pc = "write"
    /\ audio' = [r \in Rows |-> [c \in Chans |->
                    IF r \in SliceRows(midi_events[v], thr[v].dur)
                    THEN thr[v].tmp[r][c]
                         + Tile(midi_events[v], thr[v].dur, r, c)
                    ELSE audio[r][c]]]
    /\ thr' = [thr EXCEPT ![v].pc = "mixed", ![v].tmp = <<>>]
    /\ lock' = ReleasedBy(v)
    /\ UNCHANGED <<midi_events, voices, mainPc, idx, result>>
    /\ UNCHANGED <<envVars, cvVars, dspVars, parseVars>>

RenderNext ==
    \/ LoopStep
    \/ LoopEnd
    \/ JoinStep
    \/ Return
    \/ \E v \in 1..MaxEvents : SynthesizeNote(v)
    \/ \E v \in 1..MaxEvents : Acquire(v)
    \/ \E v \in 1..MaxEvents : MixRead(v)
    \/ \E v \in 1..MaxEvents : MixWrite(v)

\* The loop of render on its own, lines 96-109, over event lists long
\* enough for several note_ons and note_offs on two channels: the voices
\* are started with their durations and left unscheduled.
MatchLen == 3
MatchTimes == {0, 30}
MatchChannels == {0, 1}
MatchEvents == [type : {"note_on", "note_off"}, note : Notes,
                velocity : {<<100>>}, time : MatchTimes,
                channel : MatchChannels]
MatchLists == UNION {[1..n -> MatchEvents] : n \in 0..MatchLen}

MatchInit ==
    /\ midi_events \in MatchLists
    /\ audio = ZeroBuffer
    /\ lock = 0
    /\ thr = [i \in 1..Len(midi_events) |-> NoThread]
    /\ voices = <<>>
    /\ mainPc = "loop"
    /\ idx = 1
    /\ result = <<>>

MatchNext ==
    \/ LoopStep
    \/ LoopEnd

(***************************************************************************)
(* Properties of render                                                    *)
(***************************************************************************)
RECURSIVE SumContribution(_, _)
\* The sum, at row r, of what the voices of the set S add.
SumContribution(S, r) ==
    IF S = {} THEN 0
    ELSE LET v == CHOOSE x \in S : TRUE
         IN Contribution(midi_events[v], duration_sec(midi_events, v), r)
            + SumContribution(S \ {v}, r)

MixOf(S) == [r \in Rows |-> [c \in Chans |-> SumContribution(S, r)]]

\* The NoteOn events whose voice renders: decided by the events alone.
Renders(i) ==
    /\ midi_events[i].type = "note_on"
    /\ ~SynthesizeNoteRaises(midi_events[i])
    /\ ~MixRaises(midi_events[i], duration_sec(midi_events, i))

RenderedVoices == {i \in 1..Len(midi_events) : Renders(i)}

\* C1: whatever the interleaving of the voice threads, the buffer render
\* returns is the element-wise sum of the contributions of all the voices
\* that render, each counted once; the sum is fixed by the events, so it
\* does not depend on the order of mixing.
C1_MasterIsSumOfVoices ==
    mainPc = "returned" => result = MixOf(RenderedVoices)

\* Two voices that overlap on a row have both been mixed and render returned.
C1_Witness ==
    /\ mainPc = "returned"
    /\ \E i, j \in RenderedVoices : \E r \in Rows :
          /\ i # j
          /\ thr[i].pc = "mixed" /\ thr[j].pc = "mixed"
          /\ Contribution(midi_events[i], thr[i].dur, r) # 0
          /\ Contribution(midi_events[j], thr[j].dur, r) # 0

FailedVoices == {v \in 1..MaxEvents : thr[v].pc \in {"skipped", "died"}}
MixedVoices == {v \in 1..MaxEvents : thr[v].pc = "mixed"}

C19_ReturnsAfterAllVoicesEnded ==
    mainPc = "returned" =>
        /\ \A v \in 1..MaxEvents :
              thr[v].pc \in {"none", "mixed", "skipped", "died"}
        /\ \A k \in 1..Len(voices) : thr[voices[k]].pc # "none"
        /\ lock = 0
        /\ audio = result

\* render has returned after starting two voices, one that was mixed into
\* the buffer and one that was skipped.
C19_Witness ==
    /\ mainPc = "returned"
    /\ Len(voices) = 2
    /\ thr[voices[1]].pc = "skipped"
    /\ thr[voices[2]].pc = "mixed"
    /\ result # ZeroBuffer

\* C20: a voice writes only rows within [0, num_samples): one that would
\* run past the end is cut at the end, and one whose start is at or beyond
\* the end writes nothing and raises no error.
C20_WritesWithinBounds ==
    \A v \in 1..MaxEvents :
        thr[v].pc \in {"acquire", "read", "write", "mixed", "died"} =>
            /\ SliceRows(midi_events[v], thr[v].dur) \subseteq Rows
            /\ start_sample(midi_events[v]) >= num_samples =>
                  SliceRows(midi_events[v], thr[v].dur) = {}
            /\ thr[v].pc # "died"

\* C22: whenever no voice is between the read and the write of its mixing
\* step, every channel of the master buffer holds the same samples, the
\* unscaled sum of the mono waveforms of the voices mixed so far; so does
\* the buffer that render returns.
C22_ChannelsIdentical ==
    /\ (\A v \in 1..MaxEvents : thr[v].pc # "write")
          => \A r \in Rows : \A c \in Chans :
                /\ audio[r][c] = audio[r][1]
                /\ audio[r][c] = SumContribution(MixedVoices, r)
    /\ mainPc = "returned"
          => \A r \in Rows : \A c \in Chans : result[r][c] = result[r][1]

\* render has returned a buffer in which two voices were mixed and some
\* sample is not zero in the last channel.
C22_Witness ==
    /\ mainPc = "returned"
    /\ Cardinality(MixedVoices) = 2
    /\ \E r \in Rows : /\ result[r][NumChannels] # 0
                        /\ result[r][NumChannels] = result[r][1]

\* C25: render terminates: it eventually returns, and from then on every
\* voice thread it started has ended and the lock is free; in particular a
\* voice whose mixing step raised has released the lock, so that no other
\* voice waits for it forever.
C25_RenderTerminates ==
    <>[](/\ mainPc = "returned"
         /\ lock = 0
         /\ \A v \in 1..MaxEvents :
               thr[v].pc \in {"none", "mixed", "skipped", "died"})

\* render has returned although the mixing step of its first voice raised:
\* the second voice took the lock and mixed.
C25_Witness ==
    /\ mainPc = "returned"
    /\ lock = 0
    /\ voices = <<1, 2>>
    /\ thr[1].pc = "died"
    /\ thr[2].pc = "mixed"

(***************************************************************************)
(* apply_adsr_envelope  (synthesizer.py)                                   *)
(*                                                                         *)
(* Gains are exact fractions <<n, d>> with d > 0.  Durations and segment   *)
(* times are in ticks, sample_rate in Hz.                                  *)
(***************************************************************************)
FracEq(x, y) == x[1] * y[2] = y[1] * x[2]
FracLeq(x, y) == x[1] * y[2] <= y[1] * x[2]
FracZero == <<0, 1>>
FracOne == <<1, 1>>

EnvDurations == {-10, 0, 10, 20, 50}
EnvRates == {-10, 0, 10, 20, 100}
EnvAttacks == {0, 1, 10}           \* default 0.01 s
EnvDecays == {0, 10}               \* default 0.1 s
EnvReleases == {0, 5, 10, 20}      \* default 0.2 s
EnvSustainLevels == {<<7, 10>>}    \* default 0.7

EnvArgSets == [note_duration : EnvDurations, sample_rate : EnvRates,
               attack : EnvAttacks, decay : EnvDecays,
               sustain_level : EnvSustainLevels, release : EnvReleases]

total_samples(a) == IntTrunc(a.note_duration * a.sample_rate, TicksPerSec)
attack_samples(a) == IntTrunc(a.attack * a.sample_rate, TicksPerSec)
decay_samples(a) == IntTrunc(a.decay * a.sample_rate, TicksPerSec)
release_samples(a) == IntTrunc(a.release * a.sample_rate, TicksPerSec)
sustain_samples(a) ==
    Max(total_samples(a)
        - (attack_samples(a) + decay_samples(a) + release_samples(a)), 0)

\* np.linspace(start, stop, num, endpoint): num values start + i * step,
\* step = (stop - start) / (num if not endpoint else num - 1).
Linspace(start, stop, num, endpoint) ==
    LET div == IF endpoint THEN num - 1 ELSE num
    IN [i \in 1..num |->
          IF div = 0 THEN start
          ELSE <<start[1] * stop[2] * div
                   + (i - 1) * (stop[1] * start[2] - start[1] * stop[2]),
                 start[2] * stop[2] * div>>]

attack_env(a) == Linspace(FracZero, FracOne, attack_samples(a), FALSE)
decay_env(a) == Linspace(FracOne, a.sustain_level, decay_samples(a), FALSE)
sustain_env(a) == [i \in 1..sustain_samples(a) |-> a.sustain_level]
release_env_no_endpoint(a) ==
    Linspace(a.sustain_level, FracZero, release_samples(a), FALSE)
release_env(a) == Linspace(a.sustain_level, FracZero, release_samples(a), TRUE)

\* np.linspace raises ValueError for a negative number of samples.
EnvelopeRaises(a) ==
    \/ attack_samples(a) < 0
    \/ decay_samples(a) < 0
    \/ release_samples(a) < 0

\* Lines 26-31: the segments concatenated, zero-padded when shorter than
\* total_samples; a longer concatenation is returned as it is.
Envelope(a) ==
    LET cat == attack_env(a) \o decay_env(a) \o sustain_env(a) \o release_env(a)
    IN IF Len(cat) < total_samples(a)
       THEN cat \o [i \in 1..(total_samples(a) - Len(cat)) |-> FracZero]
       ELSE cat

EnvInit ==
    /\ envArgs \in EnvArgSets
    /\ envPc = "call"
    /\ envelope = <<>>
    /\ envErr = ""

EnvIdle ==
    /\ envArgs = [note_duration |-> 50, sample_rate |-> 10, attack |-> 1,
                  decay |-> 10, sustain_level |-> <<7, 10>>, release |-> 20]
    /\ envPc = "idle"
    /\ envelope = <<>>
    /\ envErr = ""

\* apply_adsr_envelope(note_duration, sample_rate, attack, decay,
\* sustain_level, release)
ApplyAdsrEnvelope ==
    /\ envPc = "call"
    /\ IF EnvelopeRaises(envArgs)
       THEN /\ envPc' = "raised"
            /\ envErr' = "ValueError"
            /\ UNCHANGED envelope
       ELSE /\ envPc' = "returned"
            /\ envelope' = Envelope(envArgs)
            /\ UNCHANGED envErr
    /\ UNCHANGED envArgs
    /\ UNCHANGED <<renderVars, cvVars, dspVars, parseVars>>

(***************************************************************************)
(* UniversalConverter  (converter.py), with the shapes the blocks of       *)
(* pipeline.py and effects.py produce and the conditions under which they  *)
(* raise.                                                                  *)
(***************************************************************************)
MaxFormats == 2                 \* length of the output_formats lists explored

oversample_factor == 8          \* Oversampler(factor=8)
decimate_step == 8              \* processed[::8]
numtaps == 151                  \* AntiAliasFilter(numtaps=151)
eq_center_freq == 1000          \* the default EQ band
half_second == 50               \* last_time + 0.5, in ticks

\* parse_target_length: "MM:SS" to seconds (here ticks); <<>> when the text
\* does not parse and ValueError is raised.
ParseTargetLength(text) ==
    CASE text = "00:02" -> <<200>>
      [] text = "01:00" -> <<6000>>
      [] text = "0:00"  -> <<0>>
      [] OTHER          -> <<>>

TargetTexts == {"00:00", "00:02", "0:00", "soon"}

\* The event lists given to the converter, by their event times (ticks).
CvEventTimes == {<<>>, <<0, 50>>, <<50, 0>>, <<0, 150>>, <<0, 54>>}

\* The velocity of the note events: a finite number, or float('nan').
CvVelocities == {"finite", "nan"}

CtorArgSets ==
    [sample_rate : {1000, 4000, 44100}, channels : {1, 2},
     default_duration : {1, 100}, target_length : TargetTexts,
     events : CvEventTimes, velocity : CvVelocities]

\* Arguments that include the non-positive ones.
CtorArgSetsWide ==
    [sample_rate : {-1, 0, 44100}, channels : {0, 2},
     default_duration : {-100, 0, 100}, target_length : {"00:00"},
     events : {<<>>, <<0, 50>>}, velocity : {"finite"}]

FormatNames == {"WAV", "MP3", "AAC", "OGG", "Certification"}
Supported(fmt) == fmt \in {"WAV", "FLAC", "MP3", "AAC", "WMA"}
FormatLists == UNION {[1..n -> FormatNames] : n \in 0..MaxFormats}

\* self.target_length_sec: <<>> for None.
target_length_sec(a) ==
    IF a.target_length = "00:00" THEN <<>> ELSE ParseTargetLength(a.target_length)

ConstructRaises(a) ==
    a.target_length # "00:00" /\ ParseTargetLength(a.target_length) = <<>>

\* __init__, lines 90-94.
CtorDuration(a) ==
    IF Len(a.events) > 0
    THEN Max(a.default_duration, a.events[Len(a.events)] + half_second)
    ELSE a.default_duration

CvBlank ==
    /\ cvErr = ""
    /\ duration = 0
    /\ shape = <<>>
    /\ stageLog = <<>>
    /\ tasks = <<>>
    /\ results = <<>>
    /\ temp_wavs = {}

CvInit ==
    /\ ctorArgs \in CtorArgSets
    /\ formats \in FormatLists
    /\ cvPc = "new"
    /\ CvBlank

CvInitWide ==
    /\ ctorArgs \in CtorArgSetsWide
    /\ formats = <<"WAV">>
    /\ cvPc = "new"
    /\ CvBlank

CvIdle ==
    /\ ctorArgs = [sample_rate |-> 44100, channels |-> 2, default_duration |-> 100,
                   target_length |-> "00:00", events |-> <<>>,
                   velocity |-> "finite"]
    /\ formats = <<>>
    /\ cvPc = "idle"
    /\ CvBlank

\* UniversalConverter.__init__ with events given.
Construct ==
    /\ cvPc = "new"
    /\ IF ConstructRaises(ctorArgs)
       THEN /\ cvPc' = "raised"
            /\ cvErr' = "ValueError"
            /\ UNCHANGED duration
       ELSE /\ cvPc' = "synthesize"
            /\ duration' = CtorDuration(ctorArgs)
            /\ UNCHANGED cvErr
    /\ UNCHANGED <<ctorArgs, shape, stageLog, formats, tasks, results>>
    /\ UNCHANGED temp_wavs
    /\ UNCHANGED <<renderVars, envVars, dspVars, parseVars>>

HasTarget == target_length_sec(ctorArgs) # <<>>

\* The order of convert (lines 181-200), of _process_audio (lines 122-135)
\* and of the blocks handed to AudioPipeline.
StageAfter_ReverbBeforeDecimate(stage) ==
    CASE stage = "synthesize" -> "oversample"
      [] stage = "oversample" -> "antialias"
      [] stage = "antialias"  -> "dynamics"
      [] stage = "dynamics"   -> "normalize"
      [] stage = "normalize"  -> "reverb"
      [] stage = "reverb"     -> "decimate"
      [] stage = "decimate"   -> "eq"
      [] stage = "eq"         -> IF HasTarget THEN "stretch" ELSE "encode"
      [] stage = "stretch"    -> "encode"

StageAfter(stage) ==
    CASE stage = "synthesize" -> "oversample"
      [] stage = "oversample" -> "antialias"
      [] stage = "antialias"  -> "dynamics"
      [] stage = "dynamics"   -> "normalize"
      [] stage = "normalize"  -> "decimate"
      [] stage = "decimate"   -> "reverb"
      [] stage = "reverb"     -> "eq"
      [] stage = "eq"         -> IF HasTarget THEN "stretch" ELSE "encode"
      [] stage = "stretch"    -> "encode"

\* One stage of convert: it raises and convert ends, or it hands its whole
\* buffer to the next stage.
RunStage(stage, raises, newShape) ==
    /\ cvPc = stage
    /\ IF raises
       THEN /\ cvPc' = "raised"
            /\ cvErr' = "ValueError"
            /\ UNCHANGED <<shape, stageLog>>
       ELSE /\ cvPc' = StageAfter(stage)
            /\ shape' = newShape
            /\ stageLog' = Append(stageLog, stage)
            /\ UNCHANGED cvErr
    /\ UNCHANGED <<ctorArgs, duration, formats, tasks, results>>
    /\ UNCHANGED temp_wavs
    /\ UNCHANGED <<renderVars, envVars, dspVars, parseVars>>

\* _generate_waveform: render allocates int(sample_rate * duration) rows.
SynthRows == IntTrunc(ctorArgs.sample_rate * duration, TicksPerSec)

Synthesize ==
    RunStage("synthesize",
             SynthRows < 0 \/ ctorArgs.channels < 0,
             <<SynthRows, ctorArgs.channels>>)

\* Oversampler.process: resample_poly(x, factor, 1) per channel; np.stack
\* raises when there is no channel.
Oversample ==
    RunStage("oversample",
             shape[2] = 0,
             <<shape[1] * oversample_factor, shape[2]>>)

\* AntiAliasFilter.process: np.convolve(x, kernel, mode='same') has
\* max(len(x), numtaps) values and is assigned to a column of len(x) rows;
\* np.convolve raises for an empty x.
AntiAlias ==
    RunStage("antialias", shape[1] < numtaps, shape)

Dynamics == RunStage("dynamics", FALSE, shape)

Normalize == RunStage("normalize", FALSE, shape)

DecimatedRows_HalfStep(rows) == (rows + 3) \div 4

\* processed[::8]
DecimatedRows(rows) == (rows + decimate_step - 1) \div decimate_step

Decimate == RunStage("decimate", FALSE, <<DecimatedRows(shape[1]), shape[2]>>)

\* apply_advanced_reverb: np.max of an empty tail raises.
Reverb ==
    RunStage("reverb",
             IntTrunc(3 * ctorArgs.sample_rate, 2) <= 0,
             shape)

\* apply_advanced_eq: iirpeak raises unless the normalized centre
\* frequency center_freq / (sample_rate / 2) is within [0, 1].
Eq ==
    RunStage("eq", 2 * eq_center_freq > ctorArgs.sample_rate, shape)

\* _time_stretch, lines 162-166, in binary64: current_duration = rows /
\* sample_rate and ratio = target / current_duration are rounded, and the
\* product rows * ratio falls just below the integer target * sample_rate
\* for a current duration of 1.04 s and a target of 2 s (e.g. 4160 rows at
\* 4000 Hz give 7999.999999999999); for the other durations and targets
\* explored the product is that integer exactly.
ProductBelowInteger(rows, rate, target) ==
    rows * TicksPerSec = 104 * rate /\ target = 200

StretchedRows_Rounded ==
    IntTrunc(2 * target_length_sec(ctorArgs)[1] * ctorArgs.sample_rate + TicksPerSec,
             2 * TicksPerSec)

\* new_num_samples = int(pcm.shape[0] * ratio)
StretchedRows ==
    IntTrunc(target_length_sec(ctorArgs)[1] * ctorArgs.sample_rate, TicksPerSec)
    - (IF ProductBelowInteger(shape[1], ctorArgs.sample_rate,
                              target_length_sec(ctorArgs)[1])
       THEN 1 ELSE 0)

\* _time_stretch: a buffer of no rows is returned as it is; resample_poly
\* raises for up < 1.
TimeStretch ==
    RunStage("stretch",
             shape[1] > 0 /\ StretchedRows < 1,
             IF shape[1] > 0 THEN <<StretchedRows, shape[2]>> ELSE shape)

\* convert, line 199: ThreadPoolExecutor(max_workers=len(output_formats))
\* raises for no format; executor.map submits one task per format.
StartEncode ==
    /\ cvPc = "encode"
    /\ IF Len(formats) = 0
       THEN /\ cvPc' = "raised"
            /\ cvErr' = "ValueError"
            /\ UNCHANGED tasks
       ELSE /\ cvPc' = "encoding"
            /\ tasks' = [i \in 1..Len(formats) |-> "queued"]
            /\ UNCHANGED cvErr
    /\ UNCHANGED <<ctorArgs, duration, shape, stageLog, formats, results>>
    /\ UNCHANGED temp_wavs
    /\ UNCHANGED <<renderVars, envVars, dspVars, parseVars>>

\* A worker picks up encode_format(fmt).
EncodeBegin(i) ==
    /\ cvPc = "encoding"
    /\ tasks[i] = "queued"
    /\ tasks' = [tasks EXCEPT ![i] = "running"]
    /\ stageLog' = Append(stageLog, "encode")
    /\ UNCHANGED <<ctorArgs, cvPc, cvErr, duration, shape, formats, results>>
    /\ UNCHANGED temp_wavs
    /\ UNCHANGED <<renderVars, envVars, dspVars, parseVars>>

PathEntry(fmt) == [kind |-> "path", fmt |-> fmt]
ErrorEntry(fmt) == [kind |-> "error", fmt |-> fmt]
CertificationEntry == [kind |-> "certification", fmt |-> ""]

\* results[key] = entry
Put(map, key, entry) == (key :> entry) @@ map

sf_write_Downmix(buf) == <<buf[1], 1>>

\* sf.write(file=..., data=pcm, ...): the array afterwards.  soundfile
\* reads the array it is given and leaves it as it was.
sf_write(buf) == buf

\* The encoders that write a temporary WAV file and run ffmpeg on it.
UsesFFmpeg(fmt) == fmt \in {"MP3", "AAC", "WMA"}

\* Mp3Encoder.encode, AacEncoder.encode, WmaEncoder.encode, first lines:
\* NamedTemporaryFile(suffix=".wav", delete=False) creates the file, which
\* stays when the with block closes it, and sf.write fills it.
TempWavCreated(fmt) == UsesFFmpeg(fmt)

\* os.remove(temp_wav) is the statement after _convert_with_ffmpeg, in no
\* finally block: it runs only when the conversion did not raise.
OsRemoveReached(fmt, raised) == UsesFFmpeg(fmt) /\ ~raised

\* encode_format, lines 190-197: _encode_format raises for an unsupported
\* format, the encoder may raise (for an ffmpeg encoder: "FFmpeg conversion
\* failed"); either way results[fmt] is set.  Every encoder hands the
\* buffer to sf.write.
EncodeEnd(i) ==
    /\ cvPc = "encoding"
    /\ tasks[i] = "running"
    /\ tasks' = [tasks EXCEPT ![i] = "done"]
    /\ shape' = IF Supported(formats[i]) THEN sf_write(shape) ELSE shape
    /\ \E encoderRaises \in BOOLEAN :
          /\ results' = Put(results, formats[i],
                         IF ~Supported(formats[i]) \/ encoderRaises
                         THEN ErrorEntry(formats[i])
                         ELSE PathEntry(formats[i]))
          /\ temp_wavs' =
                (temp_wavs
                 \cup (IF TempWavCreated(formats[i]) THEN {i} ELSE {}))
                \ (IF OsRemoveReached(formats[i], encoderRaises)
                   THEN {i} ELSE {})
    /\ UNCHANGED <<ctorArgs, cvPc, cvErr, duration, stageLog, formats>>
    /\ UNCHANGED <<renderVars, envVars, dspVars, parseVars>>

\* The buffer convert holds has NaN samples: a note whose velocity is NaN
\* was rendered into it, and every block after the synthesis (polyphase
\* and FIR filtering, the comparisons of the dynamics and of the
\* normalizer, the reverb convolution, the EQ and the resampling) carries
\* NaN through.
BufferHasNaN ==
    /\ shape # <<>>
    /\ ctorArgs.velocity = "nan"
    /\ ctorArgs.events # <<>>

\* convert, lines 202-204, once the executor has shut down.
ConvertReturn ==
    /\ cvPc = "encoding"
    /\ \A i \in 1..Len(tasks) : tasks[i] = "done"
    /\ results' = Put(results, "Certification", CertificationEntry)
    /\ cvPc' = "returned"
    /\ UNCHANGED <<ctorArgs, cvErr, duration, shape, stageLog, formats, tasks>>
    /\ UNCHANGED temp_wavs
    /\ UNCHANGED <<renderVars, envVars, dspVars, parseVars>>

ConvertNext ==
    \/ Construct
    \/ Synthesize
    \/ Oversample
    \/ AntiAlias
    \/ Dynamics
    \/ Normalize
    \/ Decimate
    \/ Reverb
    \/ Eq
    \/ TimeStretch
    \/ StartEncode
    \/ \E i \in 1..MaxFormats : i <= Len(tasks) /\ EncodeBegin(i)
    \/ \E i \in 1..MaxFormats : i <= Len(tasks) /\ EncodeEnd(i)
    \/ ConvertReturn

RenderIdle ==
    /\ midi_events = <<>>
    /\ audio = ZeroBuffer
    /\ lock = 0
    /\ thr = [i \in 1..MaxEvents |-> NoThread]
    /\ voices = <<>>
    /\ mainPc = "idle"
    /\ idx = 1
    /\ result = <<>>

(***************************************************************************)
(* The sample arithmetic of _process_audio after the anti-alias filter:    *)
(* DynamicsProcessor, Normalizer, the decimation, apply_advanced_reverb    *)
(* and apply_advanced_eq  (pipeline.py, effects.py, converter.py).         *)
(*                                                                         *)
(* Samples are fixed-point: Unit stands for 1.0.  The buffers explored     *)
(* are the filter's output at DspRate Hz, DspRows rows after decimation.   *)
(***************************************************************************)
Unit == 100
CoefUnit == 1000                \* filter coefficients: CoefUnit stands for 1.0
DspRows == 3                    \* rows the buffer has once decimated
\* sample_rate of the buffers explored: the rate at which the default band
\* has w0 = 1/2
DspRate == 4 * eq_center_freq

Abs(x) == IF x < 0 THEN -x ELSE x
Sign(x) == IF x < 0 THEN -1 ELSE IF x > 0 THEN 1 ELSE 0

RECURSIVE SeqMax(_)
SeqMax(q) ==
    IF q = <<>> THEN 0
    ELSE LET m == SeqMax(Tail(q))
         IN IF Head(q) >= m THEN Head(q) ELSE m

RECURSIVE SeqSum(_)
SeqSum(q) == IF q = <<>> THEN 0 ELSE Head(q) + SeqSum(Tail(q))

\* np.max(np.abs(buf)): the peak over all rows and channels.
Peak(buf) ==
    SeqMax([r \in 1..Len(buf) |->
               SeqMax([c \in 1..Len(buf[r]) |-> Abs(buf[r][c])])])

\* The parameters _process_audio passes: threshold 0.9, ratio 10,
\* dither_amp 1e-5 (here the smallest fixed-point step), wet_mix 0.5, one
\* EQ band of +3 dB at 1000 Hz with Q = 1.
DefaultCfg ==
    [threshold |-> 90, ratio |-> 10, dither_amp |-> 1, wet_mix |-> 50,
     gain_db |-> 3, center_freq |-> 1000, Q |-> 1]

\* The parameter sets explored: the defaults, no dither, a fully dry and a
\* fully wet reverb, an EQ band of 0 dB, and compressors with a threshold
\* of 1.1, a ratio of 1 and a threshold of -2.0.
DspConfigs ==
    {DefaultCfg,
     [DefaultCfg EXCEPT !.dither_amp = 0],
     [DefaultCfg EXCEPT !.wet_mix = 0],
     [DefaultCfg EXCEPT !.wet_mix = Unit],
     [DefaultCfg EXCEPT !.gain_db = 0],
     [DefaultCfg EXCEPT !.threshold = 110],
     [DefaultCfg EXCEPT !.ratio = 1],
     [DefaultCfg EXCEPT !.threshold = -200]}

InSamples == {-120, 0, 100}

\* The filtered buffer: row 1 + 8k holds base[k + 1], the other rows hold
\* fill; the second channel, when present, is the first times stereo - 1.
InBuffer(base, fill, stereo) ==
    [r \in 1..((DspRows - 1) * decimate_step + 1) |->
        LET x == IF (r - 1) % decimate_step = 0
                 THEN base[((r - 1) \div decimate_step) + 1]
                 ELSE fill
        IN IF stereo = 0 THEN <<x>> ELSE <<x, x * (stereo - 1)>>]

DspInit ==
    /\ dspCfg \in DspConfigs
    /\ \E base \in [1..DspRows -> InSamples], fill \in InSamples,
          stereo \in {0, 2, 3} :
          pcm = InBuffer(base, fill, stereo)
    /\ dspIn = <<>>
    /\ dspPc = "dynamics"
    /\ divided = FALSE
    /\ nan = FALSE

DspIdle ==
    /\ dspCfg = DefaultCfg
    /\ pcm = <<>>
    /\ dspIn = <<>>
    /\ dspPc = "idle"
    /\ divided = FALSE
    /\ nan = FALSE

\* An expander: the excess over the threshold is multiplied by the ratio.
Compress_Expanding(x) ==
    IF Abs(x) > dspCfg.threshold
    THEN Sign(x) * (dspCfg.threshold
                    + (Abs(x) - dspCfg.threshold) * dspCfg.ratio)
    ELSE x

\* DynamicsProcessor.process, line 70.
Compress(x) ==
    IF Abs(x) > dspCfg.threshold
    THEN Sign(x) * (dspCfg.threshold
                    + IntTrunc(Abs(x) - dspCfg.threshold, dspCfg.ratio))
    ELSE x

DspDynamics ==
    /\ dspPc = "dynamics"
    /\ pcm' = [r \in 1..Len(pcm) |-> [c \in 1..Len(pcm[r]) |-> Compress(pcm[r][c])]]
    /\ dspIn' = pcm
    /\ dspPc' = "normalize"
    /\ UNCHANGED <<dspCfg, divided, nan>>
    /\ UNCHANGED <<renderVars, envVars, cvVars, parseVars>>

ShouldDivide_AlsoAtZero(max_val) == max_val >= 0

\* Normalizer.process, line 83: if max_val > 0.
ShouldDivide(max_val) == max_val > 0

Quotient_Unscaled(x, max_val) == x

\* pcm / max_val; a zero divisor gives NaN, recorded in nan.
Quotient(x, max_val) ==
    IF max_val = 0 THEN 0 ELSE IntTrunc(x * Unit, max_val)

\* The states of the random generator explored, and the two uniform draws
\* in [-dither_amp, dither_amp] each gives the sample at (r, c).
NoiseSeeds == 0..3
Draw1(seed, r, c) == (((seed + r + c) % 3) - 1) * dspCfg.dither_amp
Draw2(seed, r, c) == (((seed \div 2 + r) % 3) - 1) * dspCfg.dither_amp
TpdfNoise(seed, r, c) == Draw1(seed, r, c) + Draw2(seed, r, c)

\* Normalizer.process, lines 82-88.
DspNormalize ==
    /\ dspPc = "normalize"
    /\ \E seed \in NoiseSeeds, max_val \in {Peak(pcm)} :
          /\ pcm' = [r \in 1..Len(pcm) |->
                     [c \in 1..Len(pcm[r]) |->
                         (IF ShouldDivide(max_val)
                          THEN Quotient(pcm[r][c], max_val)
                          ELSE pcm[r][c])
                         + TpdfNoise(seed, r, c)]]
          /\ divided' = ShouldDivide(max_val)
          /\ nan' = (nan \/ (ShouldDivide(max_val) /\ max_val = 0))
    /\ dspIn' = pcm
    /\ dspPc' = "decimate"
    /\ UNCHANGED dspCfg
    /\ UNCHANGED <<renderVars, envVars, cvVars, parseVars>>

\* processed[::8]
DspDecimate ==
    /\ dspPc = "decimate"
    /\ pcm' = [k \in 1..DecimatedRows(Len(pcm)) |-> pcm[(k - 1) * decimate_step + 1]]
    /\ dspIn' = pcm
    /\ dspPc' = "reverb"
    /\ UNCHANGED <<dspCfg, divided, nan>>
    /\ UNCHANGED <<renderVars, envVars, cvVars, parseVars>>

early_delay_ms == <<20, 40, 60>>
early_decay == 60               \* 0.6

early_ir_length == IntTrunc(60 * DspRate, 1000) + 1

\* early_ir, lines 44-52, at index k (0-based), before the division by its peak.
EarlyRaw(k) ==
    LET hit == {i \in 1..Len(early_delay_ms) :
                   IntTrunc(early_delay_ms[i] * DspRate, 1000) = k}
    IN IF hit # {} THEN early_decay
       ELSE IF k = 0 THEN Unit
       ELSE 0

EarlyPeak == IF IntTrunc(early_delay_ms[1] * DspRate, 1000) = 0 THEN early_decay ELSE Unit

early_ir(k) ==
    IF k < early_ir_length THEN IntTrunc(EarlyRaw(k) * Unit, EarlyPeak) ELSE 0

\* The first values of the tail, random noise divided by its peak: values
\* within [-1, 1], here the two extremes.
TailSamples == {-Unit, Unit}

\* ir = early_ir_padded + tail_ir_padded, at index k (0-based).
Ir(tail, k) == early_ir(k) + tail[k + 1]

\* conv_result[:pcm.shape[0]] of channel c at row n (1-based), scaled by Unit.
Wet(buf, tail, n, c) ==
    SeqSum([k \in 1..n |-> Ir(tail, k - 1) * buf[n - k + 1][c]])

ReverbMix_HalfDry(buf, tail) ==
    [n \in 1..Len(buf) |-> [c \in 1..Len(buf[n]) |->
        IntTrunc(buf[n][c] * Unit + Wet(buf, tail, n, c), 2 * Unit)]]

\* processed = (1 - wet_mix) * pcm + wet_mix * wet
ReverbMix(buf, tail) ==
    [n \in 1..Len(buf) |-> [c \in 1..Len(buf[n]) |->
        IntTrunc((Unit - dspCfg.wet_mix) * buf[n][c] * Unit
                 + dspCfg.wet_mix * Wet(buf, tail, n, c),
                 Unit * Unit)]]

\* apply_advanced_reverb
DspReverb ==
    /\ dspPc = "reverb"
    /\ \E tail \in [1..Len(pcm) -> TailSamples] :
          pcm' = ReverbMix(pcm, tail)
    /\ dspIn' = pcm
    /\ dspPc' = "eq"
    /\ UNCHANGED <<dspCfg, divided, nan>>
    /\ UNCHANGED <<renderVars, envVars, cvVars, parseVars>>

\* 10 ** (gain_db / 20), in CoefUnit.
gain_factor(gain_db) ==
    CASE gain_db = 0 -> 1000
      [] gain_db = 3 -> 1413
      [] gain_db = 20 -> 10000

\* iirpeak(w0, Q) at w0 = center_freq / (sample_rate / 2) = 1/2 and Q = 1,
\* where tan(bw / 2) = 1 and cos(w0) = 0: gain = 1 / (1 + 1),
\* b = (1 - gain) * [1, 0, -1], a = [1, -2 * gain * cos(w0), 2 * gain - 1].
\* Coefficients in CoefUnit.
iirpeak_b == <<500, 0, -500>>
iirpeak_a == <<1000, 0, 0>>

\* b = b * gain_factor
band_b == [i \in 1..3 |-> IntTrunc(iirpeak_b[i] * gain_factor(dspCfg.gain_db), CoefUnit)]

RECURSIVE Lfilter(_, _, _)
\* lfilter(b, a, x) at row n of channel c (a[0] = 1).
Lfilter(buf, n, c) ==
    IF n < 1 THEN 0
    ELSE IntTrunc(band_b[1] * buf[n][c]
                  + (IF n > 1 THEN band_b[2] * buf[n - 1][c] ELSE 0)
                  + (IF n > 2 THEN band_b[3] * buf[n - 2][c] ELSE 0)
                  - iirpeak_a[2] * Lfilter(buf, n - 1, c)
                  - iirpeak_a[3] * Lfilter(buf, n - 2, c),
                  CoefUnit)

\* apply_advanced_eq with its one band.
DspEq ==
    /\ dspPc = "eq"
    /\ dspCfg.center_freq * 4 = DspRate /\ dspCfg.Q = 1
    /\ pcm' = [n \in 1..Len(pcm) |-> [c \in 1..Len(pcm[n]) |-> Lfilter(pcm, n, c)]]
    /\ dspIn' = pcm
    /\ dspPc' = "done"
    /\ UNCHANGED <<dspCfg, divided, nan>>
    /\ UNCHANGED <<renderVars, envVars, cvVars, parseVars>>

DspNext ==
    \/ DspDynamics
    \/ DspNormalize
    \/ DspDecimate
    \/ DspReverb
    \/ DspEq

(***************************************************************************)
(* NoteParser.parse  (note_parser.py) and MidiParser.parse  (parser.py).   *)
(*                                                                         *)
(* Event times are in ticks of 10 ms.  A notation is the list of tokens    *)
(* the regular expression finds, each token the list of the note names in  *)
(* it: one name for a single note, any number for a chord in brackets.     *)
(* A MIDI file is the list of its messages, track after track.             *)
(***************************************************************************)
MaxTokens == 2                  \* tokens in the notations explored
MaxChord == 2                   \* note names in a token
MaxMsgs == 2                    \* messages in the MIDI files explored

beat_duration == 50             \* 60.0 / tempo at the default tempo of 120
default_tempo == 50             \* self.tempo = 500000 microseconds per beat

NoteNames == {"C4", "E4", "Cb4"}

\* NOTE_OFFSETS.get(note): <<>> for a name that is not in the table.
NoteOffset(name) ==
    CASE name = "C4"  -> <<0>>
      [] name = "E4"  -> <<4>>
      [] name = "Cb4" -> <<>>

\* _note_to_midi: (octave + 1) * 12 + semitone, all names here of octave 4.
NoteToMidi(name) == (4 + 1) * 12 + NoteOffset(name)[1]

NoteToMidiRaises(name) == NoteOffset(name) = <<>>

Tokens == UNION {[1..n -> NoteNames] : n \in 0..MaxChord}
Notations == UNION {[1..n -> Tokens] : n \in 0..MaxTokens}

\* Lines 53-70: the note_on and note_off events of the notes of one token
\* that starts at time t.
TokenEvents(token, t) ==
    [k \in 1..(2 * Len(token)) |->
        IF k % 2 = 1
        THEN [type |-> "note_on", note |-> NoteToMidi(token[(k + 1) \div 2]),
              velocity |-> 100, time |-> t, channel |-> 0]
        ELSE [type |-> "note_off", note |-> NoteToMidi(token[k \div 2]),
              velocity |-> 0, time |-> t + beat_duration, channel |-> 0]]

RECURSIVE NoteParserEvents(_, _)
\* Lines 45-71: the events of the tokens, the first starting at time t.
NoteParserEvents(tokens, t) ==
    IF tokens = <<>> THEN <<>>
    ELSE TokenEvents(Head(tokens), t)
         \o NoteParserEvents(Tail(tokens), t + beat_duration)

NoteParserRaises(tokens) ==
    \E i \in 1..Len(tokens) : \E k \in 1..Len(tokens[i]) :
        NoteToMidiRaises(tokens[i][k])

\* The messages of a MIDI file: time is the delta in beats, tempo in ticks
\* per beat.  All notes are note 60 on channel 0.
MidiMsgs ==
    [type : {"note_on"}, time : {0, 1}, velocity : {0, 100}, tempo : {0}]
    \cup [type : {"note_off", "program_change"}, time : {0, 1},
          velocity : {0}, tempo : {0}]
    \cup [type : {"set_tempo"}, time : {0, 1}, velocity : {0}, tempo : {25, 100}]

MidiFiles == UNION {[1..n -> MidiMsgs] : n \in 0..MaxMsgs}

\* Lines 43-67: the events appended for one message at time t (a sustain
\* pedal or pitch wheel message, not explored, appends one event too).
MsgEvents(msg, t) ==
    CASE msg.type = "set_tempo" ->
            <<[time |-> t, type |-> "tempo", value |-> msg.tempo]>>
      [] msg.type \in {"note_on", "note_off"} ->
            <<[time |-> t,
               type |-> IF msg.type = "note_on" /\ msg.velocity = 0
                        THEN "note_off" ELSE msg.type,
               note |-> 60,
               velocity |-> Max(0, Min(127, msg.velocity)),
               channel |-> 0]>>
      [] OTHER -> <<>>

RECURSIVE MidiParserEvents(_, _, _)
\* Lines 39-67: current_time advances by the delta of every message at the
\* tempo in force, over all the tracks; a set_tempo changes the tempo.
MidiParserEvents(msgs, t, tempo) ==
    IF msgs = <<>> THEN <<>>
    ELSE LET msg == Head(msgs)
             now == t + msg.time * tempo
         IN MsgEvents(msg, now)
            \o MidiParserEvents(Tail(msgs), now,
                                IF msg.type = "set_tempo" THEN msg.tempo ELSE tempo)

RECURSIVE Insert(_, _)
\* ev placed after the events of evs (sorted) that are not later than it.
Insert(evs, ev) ==
    IF evs = <<>> THEN <<ev>>
    ELSE IF Head(evs).time <= ev.time
         THEN <<Head(evs)>> \o Insert(Tail(evs), ev)
         ELSE <<ev>> \o evs

RECURSIVE SortByTime(_)
\* events.sort(key=lambda x: x['time']): a stable sort.
SortByTime(evs) ==
    IF evs = <<>> THEN <<>>
    ELSE Insert(SortByTime(SubSeq(evs, 1, Len(evs) - 1)), evs[Len(evs)])

ParseInit ==
    /\ parseArgs \in [parser : {"NoteParser"}, input : Notations]
                     \cup [parser : {"MidiParser"}, input : MidiFiles]
    /\ parsePc = "call"
    /\ parsed = <<>>

ParseIdle ==
    /\ parseArgs = [parser |-> "NoteParser", input |-> <<>>]
    /\ parsePc = "idle"
    /\ parsed = <<>>

\* NoteParser(notation_str).parse()
NoteParserParse ==
    /\ parsePc = "call"
    /\ parseArgs.parser = "NoteParser"
    /\ IF NoteParserRaises(parseArgs.input)
       THEN /\ parsePc' = "raised"
            /\ UNCHANGED parsed
       ELSE /\ parsePc' = "returned"
            /\ parsed' = NoteParserEvents(parseArgs.input, 0)
    /\ UNCHANGED parseArgs
    /\ UNCHANGED <<renderVars, envVars, cvVars, dspVars>>

\* MidiParser(midi_path).parse()
MidiParserParse ==
    /\ parsePc = "call"
    /\ parseArgs.parser = "MidiParser"
    /\ parsePc' = "returned"
    /\ parsed' = SortByTime(MidiParserEvents(parseArgs.input, 0, default_tempo))
    /\ UNCHANGED parseArgs
    /\ UNCHANGED <<renderVars, envVars, cvVars, dspVars>>

ParseNext ==
    \/ NoteParserParse
    \/ MidiParserParse

(***************************************************************************)
(* MidiSanitizer  (sanitizer.py)                                           *)
(***************************************************************************)
MaxRaw == 3             \* length of the event lists given to the sanitizer

RawChannels == {0, 1}
RawEvents == [type : {"note_on", "note_off"}, note : Notes,
              channel : RawChannels]
             \cup {[type |-> "set_tempo", note |-> 0, channel |-> 0]}
RawLists == UNION {[1..n -> RawEvents] : n \in 0..MaxRaw}

\* open_notes = defaultdict(list): no note is open on any channel.
NoOpenNotes == [c \in RawChannels |-> <<>>]

\* note in open_notes[channel]
IsOpen(open, ev) ==
    \E k \in 1..Len(open[ev.channel]) : open[ev.channel][k] = ev.note

\* open_notes[channel].append(note)
OpenNote(open, ev) ==
    [open EXCEPT ![ev.channel] = Append(@, ev.note)]

\* A note_off that closes nothing.
CloseNote_LeftOpen(open, ev) == open

\* open_notes[channel].remove(note): the first occurrence goes.
CloseNote(open, ev) ==
    LET notes == open[ev.channel]
        k == CHOOSE n \in 1..Len(notes) :
                 /\ notes[n] = ev.note
                 /\ \A m \in 1..(n-1) : notes[m] # ev.note
    IN [open EXCEPT ![ev.channel] =
           SubSeq(notes, 1, k - 1) \o SubSeq(notes, k + 1, Len(notes))]

RECURSIVE Sanitized(_, _)
\* validate_note_events, lines 22-33: the scan of the events.
Sanitized(evs, open) ==
    IF evs = <<>> THEN <<>>
    ELSE LET event == Head(evs)
         IN IF event.type = "note_on"
            THEN <<event>> \o Sanitized(Tail(evs), OpenNote(open, event))
            ELSE IF event.type = "note_off"
            THEN IF IsOpen(open, event)
                 THEN <<event>> \o Sanitized(Tail(evs), CloseNote(open, event))
                 ELSE Sanitized(Tail(evs), open)
            ELSE <<event>> \o Sanitized(Tail(evs), open)

SanitizeInit ==
    /\ parseArgs \in [parser : {"MidiSanitizer"}, input : RawLists]
    /\ parsePc = "call"
    /\ parsed = <<>>

\* MidiSanitizer(events).validate_note_events()
ValidateNoteEvents ==
    /\ parsePc = "call"
    /\ parseArgs.parser = "MidiSanitizer"
    /\ parsePc' = "returned"
    /\ parsed' = Sanitized(parseArgs.input, NoOpenNotes)
    /\ UNCHANGED parseArgs
    /\ UNCHANGED <<renderVars, envVars, cvVars, dspVars>>

SanitizeNext == ValidateNoteEvents

(***************************************************************************)
(* Specifications                                                          *)
(***************************************************************************)
\* render and its voice threads
Init == RenderInit /\ EnvIdle /\ CvIdle /\ DspIdle /\ ParseIdle
Next == RenderNext
Spec == Init /\ [][Next]_vars

\* render under a scheduler that lets some thread that can run take a step
SpecLive == Init /\ [][Next]_vars /\ WF_vars(Next)

\* the event loop of render, without the voices' bodies
MatchSpecInit == MatchInit /\ EnvIdle /\ CvIdle /\ DspIdle /\ ParseIdle
SpecMatch == MatchSpecInit /\ [][MatchNext]_vars

\* apply_adsr_envelope and the construction of a converter
ParamsInit == RenderIdle /\ EnvInit /\ CvInitWide /\ DspIdle /\ ParseIdle
ParamsNext ==
    \/ ApplyAdsrEnvelope
    \/ Construct
SpecParams == ParamsInit /\ [][ParamsNext]_vars

\* construction and convert
ConvertInit == RenderIdle /\ EnvIdle /\ CvInit /\ DspIdle /\ ParseIdle
SpecConvert == ConvertInit /\ [][ConvertNext]_vars

\* the blocks of _process_audio on sample values
DspSpecInit == RenderIdle /\ EnvIdle /\ CvIdle /\ DspInit /\ ParseIdle
SpecDsp == DspSpecInit /\ [][DspNext]_vars

\* the two parsers
ParseSpecInit == RenderIdle /\ EnvIdle /\ CvIdle /\ DspIdle /\ ParseInit
SpecParse == ParseSpecInit /\ [][ParseNext]_vars

\* the sanitizer
SanitizeSpecInit == RenderIdle /\ EnvIdle /\ CvIdle /\ DspIdle /\ SanitizeInit
SpecSanitize == SanitizeSpecInit /\ [][SanitizeNext]_vars

(***************************************************************************)
(* Properties of convert                                                   *)
(***************************************************************************)
\* C2: the map convert returns has, for every requested format, an entry
\* that is that format's output path or that format's error.
C2_EveryFormatHasItsEntry ==
    cvPc = "returned" =>
        \A i \in 1..Len(formats) :
            /\ formats[i] \in DOMAIN results
            /\ results[formats[i]].kind \in {"path", "error"}
            /\ results[formats[i]].fmt = formats[i]

ProcessingOrder ==
    <<"synthesize", "oversample", "antialias", "dynamics", "normalize",
      "decimate", "reverb", "eq">>
    \o (IF HasTarget THEN <<"stretch">> ELSE <<>>)

\* C4: the stages that have run are, at every moment, a prefix of
\* synthesize, oversample, anti-alias, dynamics, normalize, decimate,
\* reverb, EQ, time-stretch (when a target is set), then the encode tasks:
\* each once, in this order; an encode task has started only when all the
\* processing stages have run, and when convert returns every stage and
\* one encode task per requested format have run.
C4_FixedStageOrder ==
    /\ \A i \in 1..Len(stageLog) :
          IF i <= Len(ProcessingOrder)
          THEN stageLog[i] = ProcessingOrder[i]
          ELSE stageLog[i] = "encode"
    /\ cvPc \in {"encode", "encoding", "returned"} =>
          Len(stageLog) >= Len(ProcessingOrder)
    /\ cvPc = "returned" =>
          Len(stageLog) = Len(ProcessingOrder) + Len(formats)

\* convert returned after a time-stretch and two encode tasks.
C4_Witness ==
    /\ cvPc = "returned"
    /\ HasTarget
    /\ Len(formats) = 2
    /\ Len(stageLog) = 11

\* C8: with no target length, the buffer handed to the encoders has
\* floor(sample_rate * max(default_duration, last event time + 0.5 s)) rows
\* (default_duration when there is no event) and `channels` columns.
C8_ShapePreserved ==
    (cvPc \in {"encode", "encoding", "returned"} /\ ~HasTarget) =>
        shape = <<IntTrunc(ctorArgs.sample_rate
                           * (IF ctorArgs.events = <<>>
                              THEN ctorArgs.default_duration
                              ELSE Max(ctorArgs.default_duration,
                                       ctorArgs.events[Len(ctorArgs.events)] + 50)),
                           TicksPerSec),
                  ctorArgs.channels>>

\* Notes ending at 0.5 s, 44100 Hz, 2 channels, default duration 1.0 s:
\* the encoders are handed a (44100, 2) buffer.
C8_Witness ==
    /\ cvPc = "encode"
    /\ ~HasTarget
    /\ ctorArgs.sample_rate = 44100
    /\ ctorArgs.channels = 2
    /\ ctorArgs.default_duration = 100
    /\ ctorArgs.events = <<0, 50>>
    /\ shape = <<44100, 2>>

\* C12: the decimation keeps every F-th row with F the oversampling
\* factor, and for every non-empty buffer synthesis produces, however
\* short, oversample, anti-alias filter, dynamics, normalize and decimate
\* all complete and return a buffer with the rows and columns of the input.
C12_OversampleDecimateKeepsLength ==
    /\ decimate_step = oversample_factor
    /\ (stageLog # <<>> /\ SynthRows > 0 /\ ctorArgs.channels > 0) =>
          /\ ~(cvPc = "raised" /\ Len(stageLog) \in 1..4)
          /\ cvPc = "reverb" => shape = <<SynthRows, ctorArgs.channels>>

StretchRan == Len(stageLog) >= 9 /\ stageLog[9] = "stretch"

\* C15: the time-stretch runs only when a target duration is set, and
\* when it runs it returns a buffer of exactly round(rows x target /
\* current duration) rows with the channels unchanged; with no target the
\* buffer the EQ returned is handed on untouched.
C15_StretchedToRoundedLength ==
    /\ StretchRan => HasTarget
    /\ ~(cvPc = "raised" /\ Len(stageLog) = 8 /\ shape[1] > 0)
    /\ (StretchRan /\ target_length_sec(ctorArgs)[1] # duration) =>
          shape = <<StretchedRows_Rounded, ctorArgs.channels>>
    /\ (cvPc = "encode" /\ ~HasTarget) =>
          (Len(stageLog) = 8 /\ shape = <<SynthRows, ctorArgs.channels>>)

\* C16: a buffer that is invalid, of no rows or holding NaN, is never
\* handed to the encode tasks: convert has raised before it starts them.
C16_InvalidBufferNeverEncoded ==
    cvPc \in {"encode", "encoding", "returned"} =>
        (shape[1] > 0 /\ ~BufferHasNaN)

\* C17: from the moment the finalized buffer is handed to the encode tasks,
\* no step of an encode task and no later step of convert changes it.
C17_BufferReadOnlyAfterHandOff ==
    [][(cvPc \in {"encode", "encoding", "returned"}) => (shape' = shape)]_vars

\* Two encode tasks of supported formats are running on a two-channel
\* buffer at the same time.
C17_Witness ==
    /\ cvPc = "encoding"
    /\ Len(tasks) = 2
    /\ tasks[1] = "running" /\ tasks[2] = "running"
    /\ Supported(formats[1]) /\ Supported(formats[2])
    /\ shape[2] = 2

(***************************************************************************)
(* Properties of the envelope generator and of construction                *)
(***************************************************************************)
\* C5: a non-positive duration or sample rate given to the envelope
\* generator, and a non-positive sample rate, channel count or duration
\* given to UniversalConverter, are rejected with InvalidParameterError.
C5_NonPositiveRejected ==
    /\ (/\ envPc \in {"returned", "raised"}
        /\ (envArgs.note_duration <= 0 \/ envArgs.sample_rate <= 0))
       => envErr = "InvalidParameterError"
    /\ (/\ cvPc # "new"
        /\ \/ ctorArgs.sample_rate <= 0
           \/ ctorArgs.channels <= 0
           \/ ctorArgs.default_duration <= 0)
       => (cvPc = "raised" /\ cvErr = "InvalidParameterError")

\* C6: for a positive duration and sample rate the envelope returned has
\* exactly total = floor(duration * sample_rate) samples.
C6_ExactlyTotalSamples ==
    (/\ envPc = "returned"
     /\ envArgs.note_duration > 0
     /\ envArgs.sample_rate > 0)
    => Len(envelope) = total_samples(envArgs)

SegmentsFit(a) ==
    attack_samples(a) + decay_samples(a) + release_samples(a) <= total_samples(a)

AttackNonDecreasing ==
    \A i \in 1..(attack_samples(envArgs) - 1) :
        FracLeq(envelope[i], envelope[i + 1])

C9_FinalPeakAtMostOne ==
    (dspPc = "done" /\ dspCfg = DefaultCfg) => Peak(pcm) <= Unit + 5

DynamicsRan == dspPc = "normalize"

\* The pairs <<input sample, output sample>> of the compressor.
DynamicsPairs ==
    {<<dspIn[r][c], pcm[r][c]>> : r \in DOMAIN pcm, c \in DOMAIN pcm[1]}

\* What DynamicsProcessor.process does to one sample.
DynamicsMaps(p) ==
    IF Abs(p[1]) <= dspCfg.threshold
    THEN p[2] = p[1]
    ELSE p[2] = Sign(p[1]) * (dspCfg.threshold
                  + IntTrunc(Abs(p[1]) - dspCfg.threshold, dspCfg.ratio))

\* No magnitude grows, no sign changes, the order of magnitudes is kept.
DynamicsTame ==
    /\ \A p \in DynamicsPairs :
          /\ Abs(p[2]) <= Abs(p[1])
          /\ Sign(p[2]) = Sign(p[1])
    /\ \A p \in DynamicsPairs : \A q \in DynamicsPairs :
          Abs(p[1]) <= Abs(q[1]) => Abs(p[2]) <= Abs(q[2])

\* C23, as stated: DynamicsProcessor.process leaves a sample of magnitude
\* at most the threshold unchanged and maps any other to sign(x) x
\* (threshold + (|x| - threshold) / ratio); for a ratio of at least 1, no
\* magnitude grows, no sign changes and the order of magnitudes is kept.
C23_AsStated ==
    DynamicsRan =>
        /\ \A p \in DynamicsPairs : DynamicsMaps(p)
        /\ dspCfg.ratio >= 1 => DynamicsTame

\* C23, amended: the same mapping; for a ratio of at least 1 and a
\* threshold that is not negative, no magnitude grows, no sign changes and
\* the order of magnitudes is kept.
C23_CompressionTame ==
    DynamicsRan =>
        /\ \A p \in DynamicsPairs : DynamicsMaps(p)
        /\ (dspCfg.ratio >= 1 /\ dspCfg.threshold >= 0) => DynamicsTame

\* The compressor, with a threshold above zero and a ratio above 1, has
\* left one non-zero sample alone and brought another one down.
C23_Witness ==
    /\ DynamicsRan
    /\ dspCfg.threshold > 0
    /\ dspCfg.ratio > 1
    /\ \E p \in DynamicsPairs : p[1] # 0 /\ p[2] = p[1]
    /\ \E p \in DynamicsPairs : Abs(p[2]) < Abs(p[1])

NormalizerRanOnZeros == dspPc = "decimate" /\ Peak(dspIn) = 0

\* C10, as stated: Normalizer.process given an all-zero buffer returns the
\* buffer unchanged and performs no division.
C10_AsStated ==
    NormalizerRanOnZeros => (pcm = dspIn /\ ~divided)

\* C10, amended: Normalizer.process given an all-zero buffer performs no
\* division and returns the dither noise alone: every sample of the output
\* has magnitude at most 2 x dither_amp, so the output is the unchanged
\* zero buffer when dither_amp is 0.
C10_ZeroInputOnlyDither ==
    NormalizerRanOnZeros =>
        /\ ~divided
        /\ ~nan
        /\ Peak(pcm) <= 2 * dspCfg.dither_amp
        /\ dspCfg.dither_amp = 0 => pcm = dspIn

\* The Normalizer has been given zeros and has returned a buffer that is
\* not all zero.
C10_Witness ==
    /\ NormalizerRanOnZeros
    /\ ~divided
    /\ Peak(pcm) > 0

NormalizerRanOnNonzero == dspPc = "decimate" /\ Peak(dspIn) > 0

\* C11: Normalizer.process given a buffer with a nonzero sample divides it
\* by the single peak over all rows and channels and adds the dither: every
\* sample of the output has magnitude at most 1 + 2 x dither_amp, and is
\* within the dither (and one fixed-point step) of the input sample divided
\* by that global peak.
C11_NormalizedWithinDither ==
    NormalizerRanOnNonzero =>
        /\ divided
        /\ ~nan
        /\ Peak(pcm) <= Unit + 2 * dspCfg.dither_amp
        /\ \A max_val \in {Peak(dspIn)} :
              \A r \in 1..Len(pcm) : \A c \in 1..Len(pcm[r]) :
                  Abs(pcm[r][c] * max_val - dspIn[r][c] * Unit)
                      <= (2 * dspCfg.dither_amp + 1) * max_val

\* The Normalizer was given a two-channel buffer whose peak, above full
\* scale, is in the second channel, and the dither has pushed a sample of
\* its output just above full scale.
C11_Witness ==
    /\ NormalizerRanOnNonzero
    /\ Peak(dspIn) > Unit
    /\ \E r \in 1..Len(dspIn) :
          /\ Len(dspIn[r]) = 2
          /\ Abs(dspIn[r][2]) = Peak(dspIn)
          /\ Abs(dspIn[r][1]) < Peak(dspIn)
    /\ Peak(pcm) > Unit

ReverbRan == dspPc = "eq"

\* C13: apply_advanced_reverb with wet_mix = 0 returns exactly the buffer
\* it was given, and with wet_mix = 1 returns exactly the wet signal, the
\* convolution of the input with the impulse response cut to the input's
\* length, with nothing of the dry signal added.
C13_DryAndWetExtremes ==
    ReverbRan =>
        /\ dspCfg.wet_mix = 0 => pcm = dspIn
        /\ dspCfg.wet_mix = Unit =>
              \E tail \in [1..Len(dspIn) -> TailSamples] :
                  pcm = [n \in 1..Len(dspIn) |-> [c \in 1..Len(dspIn[n]) |->
                            IntTrunc(Wet(dspIn, tail, n, c), Unit)]]

\* A fully wet reverb has returned a buffer that differs from its nonzero
\* input.
C13_Witness ==
    /\ ReverbRan
    /\ dspCfg.wet_mix = Unit
    /\ Peak(dspIn) > 0
    /\ pcm # dspIn

\* C14: apply_advanced_eq with a band of gain_db = 0 returns the buffer it
\* was given.
C14_ZeroGainIsIdentity ==
    (dspPc = "done" /\ dspCfg.gain_db = 0) => pcm = dspIn

(***************************************************************************)
(* Properties of the parsers                                               *)
(***************************************************************************)
\* C18: the event list a parser returns, MidiParser.parse or
\* NoteParser.parse, for a notation with or without chords, is in
\* non-decreasing order of event time.
C18_EventsSortedByTime ==
    parsePc = "returned" =>
        \A i \in 1..(Len(parsed) - 1) : parsed[i].time <= parsed[i + 1].time


(***************************************************************************)
(* Properties of the NoteOn/NoteOff matching of render                     *)
(***************************************************************************)
\* The later note_offs with the note and the channel of event i.
LaterOffs(i) ==
    {j \in (i+1)..Len(midi_events) :
        /\ midi_events[j].type = "note_off"
        /\ midi_events[j].note = midi_events[i].note
        /\ midi_events[j].channel = midi_events[i].channel}

\* The events the loop has gone through that started a voice.
StartedOns ==
    {i \in 1..Len(midi_events) :
        /\ midi_events[i].type = "note_on"
        /\ (mainPc = "loop" => i < idx)}

\* C21: every started note_on has the duration max(0.1 s, off - on) of the
\* first later note_off with its note and channel, and 0.5 s when there is
\* none; note_offs of another note or channel play no part.
C21_DurationFromFirstMatchingOff ==
    \A i \in StartedOns :
        /\ thr[i].pc = "synth"
        /\ IF LaterOffs(i) = {}
           THEN thr[i].dur = 50
           ELSE \E j \in LaterOffs(i) :
                   /\ \A k \in LaterOffs(i) : j <= k
                   /\ thr[i].dur = Max(10, midi_events[j].time
                                           - midi_events[i].time)

\* A note_on followed by a note_off of its note on the other channel and
\* then by one on its own channel has the duration to the second.
C21_Witness ==
    /\ mainPc = "join"
    /\ Len(midi_events) = 3
    /\ midi_events[1].type = "note_on"
    /\ midi_events[1].time = 0
    /\ midi_events[2].type = "note_off"
    /\ midi_events[2].note = midi_events[1].note
    /\ midi_events[2].channel # midi_events[1].channel
    /\ midi_events[2].time = 0
    /\ midi_events[3].type = "note_off"
    /\ midi_events[3].note = midi_events[1].note
    /\ midi_events[3].channel = midi_events[1].channel
    /\ midi_events[3].time = 30
    /\ thr[1].dur = 30

\* C26: when two note_ons of one note and channel come before the first
\* later note_off of that note and channel, both take their duration from
\* that note_off: the matching does not consume it.
C26_NoteOffSharedByNoteOns ==
    \A i \in StartedOns : \A k \in StartedOns : \A j \in LaterOffs(k) :
        (/\ i < k
         /\ midi_events[i].note = midi_events[k].note
         /\ midi_events[i].channel = midi_events[k].channel
         /\ \A n \in LaterOffs(i) : j <= n)
        => /\ thr[i].dur = Max(10, midi_events[j].time - midi_events[i].time)
           /\ thr[k].dur = Max(10, midi_events[j].time - midi_events[k].time)

\* Two note_ons of one note and channel, then the only note_off: both
\* voices last until it.
C26_Witness ==
    /\ mainPc = "join"
    /\ Len(midi_events) = 3
    /\ voices = <<1, 2>>
    /\ midi_events[2].note = midi_events[1].note
    /\ midi_events[2].channel = midi_events[1].channel
    /\ LaterOffs(1) = {3}
    /\ midi_events[1].time = 0
    /\ midi_events[2].time = 0
    /\ midi_events[3].time = 30
    /\ thr[1].dur = 30
    /\ thr[2].dur = 30


(***************************************************************************)
(* Properties of the sanitizer                                             *)
(***************************************************************************)
SanitizerReturned ==
    parsePc = "returned" /\ parseArgs.parser = "MidiSanitizer"

\* Events e and f are of the given type and have one note and channel.
SameKey(e, f, type) ==
    e.type = type /\ f.type = type /\ e.note = f.note /\ e.channel = f.channel

\* The positions K of the input that are kept follow the rule of the scan:
\* every event that is not a note_off, and a note_off exactly when the
\* earlier note_ons of its note and channel outnumber the earlier kept
\* note_offs of that note and channel.
KeptByRule(K) ==
    LET evs == parseArgs.input
    IN \A i \in 1..Len(evs) :
          i \in K <=>
             \/ evs[i].type # "note_off"
             \/ Cardinality({k \in 1..(i-1) :
                    /\ evs[k].type = "note_on"
                    /\ evs[k].note = evs[i].note
                    /\ evs[k].channel = evs[i].channel})
                > Cardinality({k \in K :
                    k < i /\ SameKey(evs[k], evs[i], "note_off")})

\* C24: validate_note_events returns the input events at the kept
\* positions in their order: all that are not note_offs, and a note_off
\* exactly when an earlier note_on of its note and channel is still open;
\* in every prefix of the output the note_offs of a note and channel are
\* no more than its note_ons.
C24_OrphanNoteOffsDropped ==
    SanitizerReturned =>
        /\ \E K \in SUBSET (1..Len(parseArgs.input)) :
              /\ KeptByRule(K)
              /\ Len(parsed) = Cardinality(K)
              /\ \A i \in K :
                    parsed[Cardinality({k \in K : k <= i})] = parseArgs.input[i]
        /\ \A n \in 1..Len(parsed) :
              parsed[n].type = "note_off" =>
                 Cardinality({k \in 1..n :
                     SameKey(parsed[k], parsed[n], "note_off")})
                 <= Cardinality({k \in 1..n :
                     /\ parsed[k].type = "note_on"
                     /\ parsed[k].note = parsed[n].note
                     /\ parsed[k].channel = parsed[n].channel})

\* A note_on followed by two note_offs of its note and channel: the first
\* note_off is kept and the second is dropped.
C24_Witness ==
    /\ SanitizerReturned
    /\ Len(parseArgs.input) = 3
    /\ parseArgs.input[1].type = "note_on"
    /\ SameKey(parseArgs.input[2], parseArgs.input[3], "note_off")
    /\ parseArgs.input[2].note = parseArgs.input[1].note
    /\ parseArgs.input[2].channel = parseArgs.input[1].channel
    /\ parsed = SubSeq(parseArgs.input, 1, 2)


(***************************************************************************)
(* Properties of the encoders                                              *)
(***************************************************************************)
\* C27: once the encode of an MP3, AAC or WMA task has finished, by
\* returning the output file name or by raising, its temporary WAV file no
\* longer exists.
C27_TempWavRemoved ==
    \A i \in 1..Len(tasks) :
        (tasks[i] = "done" /\ UsesFFmpeg(formats[i])) => i \notin temp_wavs

====
